---- MODULE Spec2Model ----
(***************************************************************************)
(* germ: the `generate` command (cmd/generate.go) and the SSM discovery    *)
(* fan-out it calls (ssm/main.go).                                         *)
(*                                                                         *)
(* One behaviour is one run of `germ generate`: the flags are parsed, the  *)
(* synchronous sources are called, ssm.Generate starts one goroutine per   *)
(* AWS config section and waits for them, the candidates are merged, and   *)
(* the collection is written, diffed or printed.                           *)
(***************************************************************************)
EXTENDS Naturals, Sequences, FiniteSets, TLC

(* ------------------------------ bounds --------------------------------- *)

\* Instance ids the remote side can list; a scope lists at most this many.
MaxInst == 1

\* Number of candidates the synchronous sources return besides the default
\* and the vim profile, in a whole run.
MaxExt == 1

\* Length of the candidate sequence handed to the merge loop when the loop
\* is started on its own.
MaxCand == 3

\* Number of profiles in the collection handed to generateCommands.
MaxCmdProf == 4

\* Number of sections in the AWS config handed to aws.Profiles.
MaxSections == 3

(* --------------------------- the environment --------------------------- *)

\* Sections of ~/.aws/config ("profile p1", "profile p2").
Scopes == {"p1", "p2"}

InstanceIds == {"i-" \o ToString(k) : k \in 1..MaxInst}

\* The account sts.GetCallerIdentity names for a scope, and the region key
\* of the scope's section.
AccountOf(s) == IF s = "p1" THEN "111" ELSE "222"
RegionOf(s) == "eu"

\* The aliases iam.ListAccountAliases returns for an account: one account
\* has an alias, the other has none.
AliasesOf(account) == IF account = "111" THEN <<"prod">> ELSE <<>>

\* The tags of the instances: i-1 has the Name tag "web", i-2 has no Name
\* tag, i-3 is a second "web", and so on.
NameTag == "web"
TaggedIds == {"i-" \o ToString(k) : k \in {j \in 1..MaxInst : j % 2 = 1}}

\* Name a synchronous source produces in a whole run, and the names of
\* the candidates of the merge loop started on its own.
ExtNames == {"x-foo"}
MergeNames == {"x-foo", "x-bar"}

NoWorker == "none"

\* Sections of the AWS config read by `germ cmd`: a and b have no
\* source_profile key, a-c1 and a-c2 name a as their source_profile, b-c1
\* names b. Section a is an azure section, b is not.
CmdSources == {"a", "b"}
CmdNames == {"a-c1", "a-c2", "b-c1", "login-a", "login-b"}

\* The prefixes aws.Profiles is called with, and the sections a config file
\* is made of: the section without a name, [default], [profile a] with an
\* azure_tenant_id, [profile a-c1] with source_profile = a, [profile b] with
\* an empty source_profile and an azure_tenant_id, and [a] with
\* source_profile = default.
Prefixes == {"", "aws"}
SectionNames == {"default", "a", "a-c1", "b"}
Section(name, hasSource, source, azure) ==
    [name |-> name, hasSource |-> hasSource, source |-> source,
     azure |-> azure]
SectionPool ==
    {Section("", FALSE, "", FALSE),
     Section("default", FALSE, "", FALSE),
     Section("profile a", FALSE, "", TRUE),
     Section("profile a-c1", TRUE, "a", FALSE),
     Section("profile b", TRUE, "", TRUE),
     Section("a", TRUE, "default", FALSE)}

(* ------------------------------- state --------------------------------- *)

VARIABLES
    pc,               \* position of generateCmd.Run
    write, diff, dryRun, ignoreInstances,   \* the flags
    prof,             \* prof.Profiles
    candidates,       \* prof.Profiles as the merge loop received it
    warnings,         \* names logged as "duplicate profile"
    outputFile,       \* content of the file at `output`
    cacheFile,        \* content of germ.ssm.json in the cache directory
    stdout,           \* what fmt.Println wrote
    current,          \* the collection read back from `output` (diff)
    data,             \* the bytes loadFromCache returned
    did,              \* reconciliation branches entered
    touched,          \* collaborators and files the run has used
    ret,              \* ssm.Generate: ret
    instances,        \* ssm.Generate: instances (instance id -> name)
    lock,             \* ssm.Generate: lock (its holder)
    wg,               \* ssm.Generate: wg (its counter)
    wpc,              \* position of each goroutine
    wAlias,           \* generateForProfile: accountAlias
    wTodo,            \* generateForProfile: instances still to be ranged over
    wEc2,             \* generateForProfile: ec2Instance of this iteration
    wRet,             \* generateForProfile: ret
    accessing,        \* the map access each goroutine is executing
    listed,           \* instance ids step (3) returned to each goroutine
    failedStep,       \* the step at which each goroutine returned nil
    retNil,           \* ssm.Generate returned nil, not a slice
    cmdPc,            \* position of cmdCmd.Run
    cmdProf,          \* cmdCmd.Run: prof.Profiles
    cmdTodo,          \* generateCommands: sources still to be ranged over
    cmdSource,        \* generateCommands: source
    cmdChildren,      \* generateCommands: profiles still to be ranged over
    cmdLogin,         \* generateCommands: login
    cmdRet,           \* generateCommands: ret
    awsPc,            \* position of aws.Profiles
    awsPrefix,        \* aws.Profiles: prefix
    awsConfig,        \* the sections of the file at `config`
    awsTodo,          \* aws.Profiles: sections still to be ranged over
    awsProf,          \* aws.Profiles: prof.Profiles
    halt              \* how the process ended, if it did

runVars == <<pc, write, diff, dryRun, ignoreInstances, data, prof, candidates,
             warnings, outputFile, cacheFile, stdout, current, did, touched>>
fanVars == <<ret, instances, lock, wg, wpc, wAlias, wTodo, wEc2, wRet,
             accessing, listed, failedStep, retNil>>
cmdVars == <<cmdPc, cmdProf, cmdTodo, cmdSource, cmdChildren, cmdLogin,
             cmdRet>>
awsVars == <<awsPc, awsPrefix, awsConfig, awsTodo, awsProf>>
vars == <<runVars, fanVars, cmdVars, awsVars, halt>>

(* ------------------------------ profiles ------------------------------- *)

\* iterm.NewProfile is not among the sources: a profile carries its name, an
\* identity key derived from the name alone, and the configuration it was
\* built with. Id is the instance the profile was built for ("" for others);
\* it is not a field of the profile and is dropped by Marshal.
Range(f) == {f[x] : x \in DOMAIN f}

RECURSIVE SetToSeq(_)
SetToSeq(S) ==
    IF S = {} THEN <<>>
    ELSE LET x == CHOOSE y \in S : TRUE IN <<x>> \o SetToSeq(S \ {x})

SsmName(alias, region, name) == alias \o ":" \o region \o ":ssm-" \o name

DefaultProfile == "default-profile"
VimProfile == "vim"
VaultProfile == "vault"

AllNames ==
    ExtNames \cup MergeNames \cup {DefaultProfile, VimProfile, VaultProfile}
    \cup CmdNames
    \cup UNION {{x \o "-" \o n, "login-" \o x \o "-" \o n} :
                    x \in Prefixes, n \in SectionNames}
    \cup UNION {{SsmName(a, RegionOf(s), n) :
                    a \in {AccountOf(s)} \cup Range(AliasesOf(AccountOf(s))),
                    n \in {NameTag, ""}} : s \in Scopes}

NameTable == SetToSeq(AllNames)

GuidOf(name) == CHOOSE i \in 1..Len(NameTable) : NameTable[i] = name

NewProfile(name, text, tags, id) ==
    [Name |-> name, GUID |-> GuidOf(name), Text |-> text, Tags |-> tags,
     Rules |-> FALSE, Id |-> id]

(* --------------------------- ssm.Generate ------------------------------ *)

NoAccess == "none"
NoHalt == [kind |-> "none", by |-> {}, at |-> ""]
Running == halt.kind = "none"

\* Lists of distinct instance ids DescribeInstanceInformation can return.
RECURSIVE ListsOver(_)
ListsOver(S) ==
    {<<>>} \cup UNION {{<<x>> \o l : l \in ListsOver(S \ {x})} : x \in S}

InstanceLists == ListsOver(InstanceIds)

\* What ec2 DescribeInstances can answer for an instance: an error (the
\* output is nil), no reservation, or the instance with its tags.
Ec2Outcomes(id) ==
    {"err", "empty", IF id \in TaggedIds THEN "named" ELSE "untagged"}

MapPut(m, k, v) == [x \in DOMAIN m \cup {k} |-> IF x = k THEN v ELSE m[x]]

\* Two map accesses that the Go runtime must not see overlap.
Conflict(a, b) ==
    /\ a /= "none"
    /\ b /= "none"
    /\ (a = "write" \/ b = "write")

Panic(w, where) ==
    halt' = [kind |-> "panic", by |-> {w}, at |-> where]

\* `return nil, instanceIDs` / `return ret, instanceIDs`: the goroutine goes
\* on to lock.Lock().
ReturnFrom(w, profiles) ==
    /\ wRet' = [wRet EXCEPT ![w] = profiles]
    /\ wpc' = [wpc EXCEPT ![w] = "lock"]

\* A goroutine that takes the lock before it calls generateForProfile.
LoadConfigLocked(w) ==
    /\ Running
    /\ wpc[w] = "load"
    /\ lock = NoWorker
    /\ lock' = w
    /\ wpc' = [wpc EXCEPT ![w] = "sts"]
    /\ UNCHANGED <<runVars, cmdVars, awsVars, retNil, ret, instances, wg,
                   wAlias, wTodo, wEc2, wRet, accessing, listed, failedStep,
                   halt>>

\* config.LoadDefaultConfig (lines 75-86).
LoadConfig(w) ==
    /\ Running
    /\ wpc[w] = "load"
    /\ \/ /\ wpc' = [wpc EXCEPT ![w] = "sts"]
          /\ UNCHANGED <<wRet, failedStep>>
       \/ /\ ReturnFrom(w, <<>>)
          /\ failedStep' = [failedStep EXCEPT ![w] = "config"]
    /\ UNCHANGED <<runVars, cmdVars, awsVars, retNil,
                   ret, instances, lock, wg, wAlias, wTodo, wEc2,
                   accessing, listed, halt>>

\* Step (1): sts GetCallerIdentity (lines 93-101).
GetCallerIdentity(w) ==
    /\ Running
    /\ wpc[w] = "sts"
    /\ \/ /\ wpc' = [wpc EXCEPT ![w] = "iam"]
          /\ UNCHANGED <<wRet, failedStep>>
       \/ /\ ReturnFrom(w, <<>>)
          /\ failedStep' = [failedStep EXCEPT ![w] = "identity"]
    /\ UNCHANGED <<runVars, cmdVars, awsVars, retNil,
                   ret, instances, lock, wg, wAlias, wTodo, wEc2,
                   accessing, listed, halt>>

\* `accountAlias` as lines 110-113 choose it.
AccountAlias(account, aliases) ==
    IF Len(aliases) /= 0 THEN aliases[1] ELSE account

\* Step (2): iam ListAccountAliases, then the choice of accountAlias (lines
\* 103-113). On an error the SDK returns a nil output; the error is logged
\* and line 111 reads the field AccountAliases through the nil pointer.
ListAccountAliases(w) ==
    /\ Running
    /\ wpc[w] = "iam"
    /\ \/ /\ wAlias' = [wAlias EXCEPT ![w] =
                AccountAlias(AccountOf(w), AliasesOf(AccountOf(w)))]
          /\ wpc' = [wpc EXCEPT ![w] = "list"]
          /\ UNCHANGED halt
       \/ /\ Panic(w, "alias")
          /\ UNCHANGED <<wAlias, wpc>>
    /\ UNCHANGED <<runVars, cmdVars, awsVars, retNil,
                   ret, instances, lock, wg, wTodo, wEc2, wRet,
                   accessing, listed, failedStep>>

\* Step (3): ssm DescribeInstanceInformation (lines 115-125).
DescribeInstanceInformation(w) ==
    /\ Running
    /\ wpc[w] = "list"
    /\ \/ /\ \E l \in InstanceLists :
                /\ wTodo' = [wTodo EXCEPT ![w] = l]
                /\ listed' = [listed EXCEPT ![w] = Range(l)]
          /\ wRet' = [wRet EXCEPT ![w] = <<>>]
          /\ wpc' = [wpc EXCEPT ![w] = "ec2"]
          /\ UNCHANGED failedStep
       \/ /\ ReturnFrom(w, <<>>)
          /\ failedStep' = [failedStep EXCEPT ![w] = "list"]
          /\ UNCHANGED <<wTodo, listed>>
    /\ UNCHANGED <<runVars, cmdVars, awsVars, retNil,
                   ret, instances, lock, wg, wAlias, wEc2,
                   accessing, halt>>

\* Head of the loop and step (4): ec2 DescribeInstances for the next
\* instance (lines 127-135); the error is logged and the loop body goes on.
DescribeInstances(w) ==
    /\ Running
    /\ wpc[w] = "ec2"
    /\ IF wTodo[w] = <<>>
       THEN /\ ReturnFrom(w, wRet[w])
            /\ UNCHANGED wEc2
       ELSE /\ \E out \in Ec2Outcomes(Head(wTodo[w])) :
                  wEc2' = [wEc2 EXCEPT ![w] = out]
            /\ wpc' = [wpc EXCEPT ![w] = "lookup"]
            /\ UNCHANGED wRet
    /\ UNCHANGED <<runVars, cmdVars, awsVars, retNil,
                   ret, instances, lock, wg, wAlias, wTodo,
                   accessing, listed, failedStep, halt>>

\* `_, found := instanceIDs[id]` begins (line 137): no lock is held.
LookupBegin(w) ==
    /\ Running
    /\ wpc[w] = "lookup"
    /\ accessing' = [accessing EXCEPT ![w] = "read"]
    /\ wpc' = [wpc EXCEPT ![w] = "found"]
    /\ UNCHANGED <<runVars, cmdVars, awsVars, retNil,
                   ret, instances, lock, wg, wAlias, wTodo, wEc2,
                   wRet, listed, failedStep, halt>>

\* What a lookup of `id` by w can return: the map's answer, or either answer
\* while another goroutine is writing the map.
LookupResults(w, id) ==
    IF \E v \in Scopes \ {w} : accessing[v] = "write"
    THEN BOOLEAN
    ELSE {id \in DOMAIN instances}

\* The name the loop body reads from the tags (lines 146-157).
TagName(out) == IF out = "named" THEN NameTag ELSE ""

\* The profile of lines 164-170.
SsmProfile(w, alias, name, id) ==
    NewProfile(SsmName(alias, RegionOf(w), name),
               "bash -c 'AWS_PROFILE=" \o w \o " ssm " \o name \o "'",
               "AWS, " \o alias \o ",account=" \o AccountOf(w),
               id)

\* Whether ec2Instance.Reservations[0].Instances[0] (line 148) can be read:
\* not through a nil output, and not in an empty list of reservations.
HasReservation(out) == out \notin {"err", "empty"}

\* The lookup returns; a found instance is skipped, otherwise the tags are
\* read through ec2Instance.Reservations[0].Instances[0] and the profile is
\* appended to the local ret (lines 137-170).
LookupEnd(w) ==
    /\ Running
    /\ wpc[w] = "found"
    /\ accessing' = [accessing EXCEPT ![w] = NoAccess]
    /\ LET id == Head(wTodo[w]) IN
       \E found \in LookupResults(w, id) :
          IF found
          THEN /\ wTodo' = [wTodo EXCEPT ![w] = Tail(@)]
               /\ wEc2' = [wEc2 EXCEPT ![w] = ""]
               /\ wpc' = [wpc EXCEPT ![w] = "ec2"]
               /\ UNCHANGED <<wRet, halt>>
          ELSE IF ~HasReservation(wEc2[w])
          THEN /\ Panic(w, "meta")
               /\ UNCHANGED <<wTodo, wEc2, wpc, wRet>>
          ELSE /\ wRet' = [wRet EXCEPT ![w] =
                     Append(@, SsmProfile(w, wAlias[w], TagName(wEc2[w]), id))]
               /\ wpc' = [wpc EXCEPT ![w] = "insert"]
               /\ UNCHANGED <<wTodo, wEc2, halt>>
    /\ UNCHANGED <<runVars, cmdVars, awsVars, retNil,
                   ret, instances, lock, wg, wAlias, listed,
                   failedStep>>

\* `instanceIDs[id] = name` begins (line 172): no lock is held.
InsertBegin(w) ==
    /\ Running
    /\ wpc[w] = "insert"
    /\ accessing' = [accessing EXCEPT ![w] = "write"]
    /\ wpc' = [wpc EXCEPT ![w] = "stored"]
    /\ UNCHANGED <<runVars, cmdVars, awsVars, retNil,
                   ret, instances, lock, wg, wAlias, wTodo, wEc2,
                   wRet, listed, failedStep, halt>>

\* The store returns and the loop goes to the next instance (lines 172-173).
InsertEnd(w) ==
    /\ Running
    /\ wpc[w] = "stored"
    /\ instances' = MapPut(instances, Head(wTodo[w]), TagName(wEc2[w]))
    /\ accessing' = [accessing EXCEPT ![w] = NoAccess]
    /\ wTodo' = [wTodo EXCEPT ![w] = Tail(@)]
    /\ wEc2' = [wEc2 EXCEPT ![w] = ""]
    /\ wpc' = [wpc EXCEPT ![w] = "ec2"]
    /\ UNCHANGED <<runVars, cmdVars, awsVars, retNil,
                   ret, lock, wg, wAlias, wRet, listed, failedStep,
                   halt>>

\* lock.Lock() and `ret = append(ret, profiles...)` (lines 58-61).
LockAndAppend(w) ==
    /\ Running
    /\ wpc[w] = "lock"
    /\ lock = NoWorker
    /\ lock' = w
    /\ ret' = ret \o wRet[w]
    /\ wpc' = [wpc EXCEPT ![w] = "copy"]
    /\ UNCHANGED <<runVars, cmdVars, awsVars, retNil,
                   instances, wg, wAlias, wTodo, wEc2, wRet,
                   accessing, listed, failedStep, halt>>

\* The copy loop begins (line 63): profileInstances is the shared map itself,
\* so the loop ranges over it and stores every entry back into it.
CopyBegin(w) ==
    /\ Running
    /\ wpc[w] = "copy"
    /\ accessing' = [accessing EXCEPT ![w] =
            IF DOMAIN instances = {} THEN "read" ELSE "write"]
    /\ wpc' = [wpc EXCEPT ![w] = "copied"]
    /\ UNCHANGED <<runVars, cmdVars, awsVars, retNil,
                   ret, instances, lock, wg, wAlias, wTodo, wEc2,
                   wRet, listed, failedStep, halt>>

\* The copy loop ends; the deferred lock.Unlock() and wg.Done() run (lines
\* 55, 59, 63-66).
CopyEnd(w) ==
    /\ Running
    /\ wpc[w] = "copied"
    /\ accessing' = [accessing EXCEPT ![w] = NoAccess]
    /\ lock' = NoWorker
    /\ wg' = wg - 1
    /\ wpc' = [wpc EXCEPT ![w] = "done"]
    /\ UNCHANGED <<runVars, cmdVars, awsVars, retNil,
                   ret, instances, wAlias, wTodo, wEc2, wRet,
                   listed, failedStep, halt>>

\* The Go runtime finds two overlapping accesses of the map, one of them a
\* write, and throws ("concurrent map writes", "concurrent map read and map
\* write", "concurrent map iteration and map write"): the process dies.
MapRaceFatal ==
    /\ Running
    /\ \E v, w \in Scopes :
          /\ v /= w
          /\ Conflict(accessing[v], accessing[w])
          /\ halt' = [kind |-> "maprace", by |-> {v, w}, at |-> "instances"]
    /\ UNCHANGED <<runVars, fanVars, cmdVars, awsVars>>

Worker(w) ==
    \/ LoadConfig(w)
    \/ GetCallerIdentity(w)
    \/ ListAccountAliases(w)
    \/ DescribeInstanceInformation(w)
    \/ DescribeInstances(w)
    \/ LookupBegin(w)
    \/ LookupEnd(w)
    \/ InsertBegin(w)
    \/ InsertEnd(w)
    \/ LockAndAppend(w)
    \/ CopyBegin(w)
    \/ CopyEnd(w)

(* --------------------------- generateCmd.Run --------------------------- *)

\* A log call that reports the error and returns.
FatalLogsOnly(msg) == halt' = [kind |-> "none", by |-> {}, at |-> msg]

\* log.Fatal()...Msg(msg): the message is logged and the process exits.
Fatal(msg) == halt' = [kind |-> "fatal", by |-> {}, at |-> msg]

\* A check that knows only the first incompatible pair.
FlagsConflictDryRunOnly == write /\ dryRun

\* The two incompatible flag pairs (lines 44-50).
FlagsConflict == (write /\ dryRun) \/ (write /\ diff)

\* Verbose and the flag checks (lines 42-50); log.Fatal exits the process.
CheckFlags ==
    /\ Running
    /\ pc = "flags"
    /\ IF FlagsConflict
       THEN /\ Fatal(IF write /\ dryRun
                     THEN "--write is incompatible with --dry-run"
                     ELSE "--write and --diff are incompatible")
            /\ UNCHANGED pc
       ELSE /\ pc' = "sources"
            /\ UNCHANGED halt
    /\ UNCHANGED <<write, diff, dryRun, ignoreInstances, data, prof,
                   candidates, warnings, outputFile, cacheFile, stdout,
                   current, did, touched, fanVars, cmdVars, awsVars>>

\* Sequences over S of length at most n.
RECURSIVE SeqsUpTo(_, _)
SeqsUpTo(S, n) ==
    IF n = 0 THEN {<<>>}
    ELSE LET shorter == SeqsUpTo(S, n - 1) IN
         shorter \cup {Append(q, x) : q \in shorter, x \in S}

\* The profile a synchronous source returns as the i-th candidate.
ExtProfile(name, i) == NewProfile(name, "#" \o ToString(i), "", "")

ExtProfiles(names, from) ==
    [i \in 1..Len(names) |-> ExtProfile(names[i], from + i)]

\* The synchronous sources, in the order of lines 54-65: aws, k8s and the
\* keychain, then the default and the vim profile, then ssh and the config.
Sources ==
    /\ Running
    /\ pc = "sources"
    /\ \E before \in SeqsUpTo(ExtNames, MaxExt) :
       \E after \in SeqsUpTo(ExtNames, MaxExt - Len(before)) :
          prof' = ExtProfiles(before, 0)
                  \o <<ExtProfile(DefaultProfile, Len(before) + 1),
                       ExtProfile(VimProfile, Len(before) + 2)>>
                  \o ExtProfiles(after, Len(before) + 2)
    /\ touched' = touched \cup {"sources"}
    /\ pc' = "ssm"
    /\ UNCHANGED <<write, diff, dryRun, ignoreInstances, data, candidates,
                   warnings, outputFile, cacheFile, stdout, current, did,
                   fanVars, cmdVars, awsVars, halt>>

\* ssm.Generate up to wg.Wait() (ssm/main.go lines 28-67): the config is
\* parsed and one goroutine is started per named section.
SsmStart ==
    /\ Running
    /\ pc = "ssm"
    /\ ~ignoreInstances
    /\ \/ /\ retNil' = TRUE                \* ParseFile failed: return nil
          /\ UNCHANGED <<wpc, wg>>
       \/ \E sections \in SUBSET Scopes :
             /\ wpc' = [w \in Scopes |->
                          IF w \in sections THEN "load" ELSE "idle"]
             /\ wg' = Cardinality(sections)
             /\ UNCHANGED retNil
    /\ touched' = touched \cup {"ssm"}
    /\ pc' = "wait"
    /\ UNCHANGED <<write, diff, dryRun, ignoreInstances, data, prof,
                   candidates, warnings, outputFile, cacheFile, stdout,
                   current, did, ret, instances, lock, wAlias, wTodo, wEc2,
                   wRet, accessing, listed, failedStep, cmdVars, awsVars,
                   halt>>

\* What json.MarshalIndent keeps of a profile.
Marshal(p) ==
    [name |-> p.Name, guid |-> p.GUID, text |-> p.Text, tags |-> p.Tags,
     rules |-> p.Rules]

\* json.Unmarshal of one serialized profile.
Unmarshal(j) ==
    [Name |-> j.name, GUID |-> j.guid, Text |-> j.text, Tags |-> j.tags,
     Rules |-> j.rules, Id |-> ""]

\* The JSON array of a slice of profiles (the cache file).
MarshalArray(profiles) ==
    [kind |-> "array",
     items |-> [i \in 1..Len(profiles) |-> Marshal(profiles[i])]]

\* An encoding of a slice taken before it was filled.
MarshalSliceStale(profiles, isNil) == MarshalArray(<<>>)

\* json.Marshal of the []iterm.Profile ssm.Generate returned (line 70): a nil
\* slice is encoded as null, any other slice as an array.
MarshalSlice(profiles, isNil) ==
    IF isNil THEN [kind |-> "null", items |-> <<>>]
    ELSE MarshalArray(profiles)

\* The JSON document of iterm.Profiles (the output file), lines 114-122.
Serialize(profiles) ==
    [kind |-> "document",
     items |-> [i \in 1..Len(profiles) |-> Marshal(profiles[i])]]

\* A file as the run found it, a file opened with O_TRUNC and not yet
\* written, and a file whose write stopped part way.
Prior == [kind |-> "prior", items |-> <<>>]
Truncated == [kind |-> "truncated", items |-> <<>>]
Partial == [kind |-> "partial", items |-> <<>>]

\* A wait that does not wait.
WaitReturnsAtOnce == TRUE

\* wg.Wait() returns when the counter is zero (ssm/main.go line 69).
WaitReturns == wg = 0

\* wg.Wait() returns, ssm.Generate returns ret, and the run appends it and
\* stores it in the cache (ssm/main.go lines 69-71, generate.go lines 67-75,
\* 175-188).
SsmReturn ==
    /\ Running
    /\ pc = "wait"
    /\ WaitReturns
    /\ prof' = prof \o ret
    /\ \/ /\ cacheFile' = MarshalSlice(ret, retNil)
          /\ pc' = "vault"
          /\ UNCHANGED halt
       \/ /\ cacheFile' \in {cacheFile, Truncated, Partial}
          /\ Fatal("cannot write to file")
          /\ UNCHANGED pc
    /\ touched' = touched \cup {"cache"}
    /\ UNCHANGED <<write, diff, dryRun, ignoreInstances, data, candidates,
                   warnings, outputFile, stdout, current, did, fanVars,
                   cmdVars, awsVars>>

\* What the cache file can hold when the run reads it: what an earlier run
\* with live discovery stored there.
CachedArrays ==
    {MarshalSlice(<<>>, TRUE),
     MarshalSlice(<<>>, FALSE),
     MarshalSlice(<<SsmProfile("p1", "prod", NameTag, "i-1")>>, FALSE),
     MarshalSlice(<<SsmProfile("p2", "222", "", "i-1"),
                    SsmProfile("p1", "prod", NameTag, "i-1")>>, FALSE)}

\* A load that forgets to append what it read.
LoadCacheDropsProfiles ==
    /\ Running
    /\ pc = "ssm"
    /\ ignoreInstances
    /\ \E bytes \in CachedArrays : data' = bytes
    /\ pc' = "vault"
    /\ touched' = touched \cup {"readCache"}
    /\ UNCHANGED <<write, diff, dryRun, ignoreInstances, prof, candidates,
                   warnings, outputFile, cacheFile, stdout, current, did,
                   fanVars, cmdVars, awsVars, halt>>

\* The cached discovery result is used instead (lines 76-87, 158-173).
LoadCache ==
    /\ Running
    /\ pc = "ssm"
    /\ ignoreInstances
    /\ \/ /\ Fatal("cannot read from file")
          /\ UNCHANGED <<data, prof, pc>>
       \/ /\ Fatal("cannot unmarshal ssm profiles")
          /\ UNCHANGED <<data, prof, pc>>
       \/ \E bytes \in CachedArrays :
             /\ data' = bytes
             /\ prof' = prof \o [i \in 1..Len(bytes.items) |->
                                    Unmarshal(bytes.items[i])]
             /\ pc' = "vault"
             /\ UNCHANGED halt
    /\ touched' = touched \cup {"readCache"}
    /\ UNCHANGED <<write, diff, dryRun, ignoreInstances, candidates, warnings,
                   outputFile, cacheFile, stdout, current, did, fanVars,
                   cmdVars, awsVars>>

\* vault.Profile (lines 89-94): an error is a warning.
Vault ==
    /\ Running
    /\ pc = "vault"
    /\ \/ prof' = Append(prof, ExtProfile(VaultProfile, Len(prof) + 1))
       \/ UNCHANGED prof
    /\ pc' = "augment"
    /\ UNCHANGED <<write, diff, dryRun, ignoreInstances, data, candidates,
                   warnings, outputFile, cacheFile, stdout, current, did,
                   touched, fanVars, cmdVars, awsVars, halt>>

\* prof.UpdateKeyboardMaps and prof.UpdateAWSSmartSelectionRules (lines
\* 96-97) rewrite every profile of the collection in place.
UpdateRules(profiles) ==
    [i \in 1..Len(profiles) |-> [profiles[i] EXCEPT !.Rules = TRUE]]

Augment ==
    /\ Running
    /\ pc = "augment"
    /\ prof' = UpdateRules(prof)
    /\ pc' = "merge"
    /\ UNCHANGED <<write, diff, dryRun, ignoreInstances, data, candidates,
                   warnings, outputFile, cacheFile, stdout, current, did,
                   touched, fanVars, cmdVars, awsVars, halt>>

\* An iteration that never marks the name as seen.
MergeStepNoMark(st, profile) ==
    IF profile.Name \in st.existing
    THEN [st EXCEPT !.warned = Append(@, profile.Name)]
    ELSE [st EXCEPT !.uniq = Append(@, profile)]

\* An iteration that lets a later candidate replace the one already kept.
MergeStepLastWins(st, profile) ==
    IF profile.Name \in st.existing
    THEN [st EXCEPT !.warned = Append(@, profile.Name),
                    !.uniq = [i \in DOMAIN @ |->
                                IF @[i].Name = profile.Name THEN profile
                                ELSE @[i]]]
    ELSE [st EXCEPT !.existing = @ \cup {profile.Name},
                    !.uniq = Append(@, profile)]

\* An iteration that puts a kept candidate in front of the others.
MergeStepPrepend(st, profile) ==
    IF profile.Name \in st.existing
    THEN [st EXCEPT !.warned = Append(@, profile.Name)]
    ELSE [st EXCEPT !.existing = @ \cup {profile.Name},
                    !.uniq = <<profile>> \o @]

\* One iteration of the loop of lines 101-110 on the state
\* (uniqProf.Profiles, existingProfiles, warnings).
MergeStep(st, profile) ==
    IF profile.Name \in st.existing
    THEN [st EXCEPT !.warned = Append(@, profile.Name)]
    ELSE [st EXCEPT !.existing = @ \cup {profile.Name},
                    !.uniq = Append(@, profile)]

RECURSIVE MergeLoop(_, _)
MergeLoop(st, profiles) ==
    IF profiles = <<>> THEN st
    ELSE MergeLoop(MergeStep(st, Head(profiles)), Tail(profiles))

\* The merge loop from its initial state (lines 99-110).
Dedup(profiles) ==
    MergeLoop([uniq |-> <<>>, existing |-> {}, warned |-> <<>>], profiles)

\* The merge and `prof = uniqProf` (lines 99-112).
Merge ==
    /\ Running
    /\ pc = "merge"
    /\ candidates' = prof
    /\ prof' = Dedup(prof).uniq
    /\ warnings' = Dedup(prof).warned
    /\ pc' = "reconcile"
    /\ UNCHANGED <<write, diff, dryRun, ignoreInstances, data, outputFile,
                   cacheFile, stdout, current, did, touched, fanVars, cmdVars,
                   awsVars, halt>>

(* ---------------------------- reconciliation --------------------------- *)

\* The branch of lines 124-154 the flags select.
PersistSelected == write
DiffSelected == ~write /\ diff

\* A print branch that forgets the write flag.
PrintSelectedWithoutWrite == ~diff

PrintSelected == ~write /\ ~diff

\* ioutil.WriteFile opens `output` with O_TRUNC (line 125).
PersistOpen ==
    /\ Running
    /\ pc = "reconcile"
    /\ PersistSelected
    /\ did' = did \cup {"persist"}
    /\ \/ /\ outputFile' = Truncated
          /\ pc' = "writing"
          /\ UNCHANGED halt
       \/ /\ Fatal("cannot write to file")
          /\ UNCHANGED <<outputFile, pc>>
    /\ UNCHANGED <<write, diff, dryRun, ignoreInstances, data, prof,
                   candidates, warnings, cacheFile, stdout, current, touched,
                   fanVars, cmdVars, awsVars>>

\* ioutil.WriteFile writes profJSON and closes the file (lines 125-128).
PersistWrite ==
    /\ Running
    /\ pc = "writing"
    /\ \/ /\ outputFile' = Serialize(prof)
          /\ pc' = "done"
          /\ UNCHANGED halt
       \/ /\ outputFile' \in {Truncated, Partial}
          /\ Fatal("cannot write to file")
          /\ UNCHANGED pc
    /\ UNCHANGED <<write, diff, dryRun, ignoreInstances, data, prof,
                   candidates, warnings, cacheFile, stdout, current, did,
                   touched, fanVars, cmdVars, awsVars>>

\* sort.Slice by GUID (lines 141-147), as an insertion sort.
RECURSIVE InsertByGUID(_, _)
InsertByGUID(p, sorted) ==
    IF sorted = <<>> THEN <<p>>
    ELSE IF p.GUID < Head(sorted).GUID THEN <<p>> \o sorted
    ELSE <<Head(sorted)>> \o InsertByGUID(p, Tail(sorted))

\* A sort that leaves the order as it is.
SortByGUIDNot(profiles) == profiles

RECURSIVE SortByGUID(_)
SortByGUID(profiles) ==
    IF profiles = <<>> THEN <<>>
    ELSE InsertByGUID(Head(profiles), SortByGUID(Tail(profiles)))

Reverse(q) == [i \in 1..Len(q) |-> q[Len(q) + 1 - i]]

\* Collections the output file can hold when the run reads it: none, the
\* new one in another order, the new one without its last profile.
PriorCollections(profiles) ==
    {<<>>, Reverse(profiles), SubSeq(profiles, 1, Len(profiles) - 1)}

\* What cmp.Diff compares: the exported fields of the profiles.
Fields(profiles) == [i \in 1..Len(profiles) |-> Marshal(profiles[i])]

\* cmp.Diff(current, prof) /= "" (line 149).
Differ(a, b) == Fields(a) /= Fields(b)

\* The diff branch (lines 129-151).
Diff ==
    /\ Running
    /\ pc = "reconcile"
    /\ DiffSelected
    /\ did' = did \cup {"diff"}
    /\ touched' = touched \cup {"readOutput"}
    /\ \/ /\ Fatal("cannot read file")
          /\ UNCHANGED <<current, prof, stdout, pc>>
       \/ /\ Fatal("cannot unmarshal output file")
          /\ UNCHANGED <<current, prof, stdout, pc>>
       \/ \E old \in PriorCollections(prof) :
             /\ current' = SortByGUID([i \in 1..Len(old) |->
                                          Unmarshal(Marshal(old[i]))])
             /\ prof' = SortByGUID(prof)
             /\ stdout' = IF Differ(current', prof')
                          THEN Append(stdout, [kind |-> "diff", items |-> <<>>])
                          ELSE stdout
             /\ pc' = "done"
             /\ UNCHANGED halt
    /\ UNCHANGED <<write, diff, dryRun, ignoreInstances, data, candidates,
                   warnings, outputFile, cacheFile, fanVars, cmdVars,
                   awsVars>>

\* The print branch (lines 152-154).
PrintCollection ==
    /\ Running
    /\ pc = "reconcile"
    /\ PrintSelected
    /\ did' = did \cup {"print"}
    /\ stdout' = Append(stdout, Serialize(prof))
    /\ pc' = "done"
    /\ UNCHANGED <<write, diff, dryRun, ignoreInstances, data, prof,
                   candidates, warnings, outputFile, cacheFile, current,
                   touched, fanVars, cmdVars, awsVars, halt>>

(* --------------------------- generateCommands -------------------------- *)

\* The profiles aws.add builds for a section (aws/main.go lines 47-54). Of
\* the section's keys only source_profile is kept, as the profile's tags.
AwsProfile(name, source) ==
    NewProfile(name,
               "/usr/bin/env AWS_PROFILE=" \o name \o " /usr/bin/login -fp me",
               source, "")

AzureLogin(name) ==
    "bash -c 'AWS_PROFILE=" \o name \o " aws-azure-login --no-prompt"

\* loginCmd (aws/main.go lines 58-82): empty unless the section is an azure
\* section.
LoginCmd(name, azure) ==
    IF azure THEN AzureLogin(name) \o " || sleep 60'" ELSE ""

LoginProfile(name, azure) ==
    NewProfile("login-" \o name, LoginCmd(name, azure), "", "")

\* The profiles a collection handed to generateCommands is made of.
CmdPool ==
    {AwsProfile("a-c1", "a"), AwsProfile("a-c2", "a"), AwsProfile("b-c1", "b"),
     LoginProfile("a", TRUE), LoginProfile("b", FALSE)}

\* iterm.Profiles.ProfileTree and FindGUID are not among the sources: the
\* tree maps each source label to the names of the profiles that name it as
\* their source, in the order of the collection; FindGUID returns the first
\* profile with the identity key.
SourceOf(profile) == profile.Tags

RECURSIVE ChildrenOf(_, _)
ChildrenOf(profiles, source) ==
    IF profiles = <<>> THEN <<>>
    ELSE (IF SourceOf(Head(profiles)) = source
          THEN <<Head(profiles).Name>> ELSE <<>>)
         \o ChildrenOf(Tail(profiles), source)

ProfileTree(profiles) ==
    [source \in {SourceOf(profiles[i]) : i \in DOMAIN profiles} \ {""} |->
        ChildrenOf(profiles, source)]

FindGUID(profiles, guid) ==
    LET hits == {i \in DOMAIN profiles : profiles[i].GUID = guid} IN
    IF hits = {} THEN [found |-> FALSE, profile |-> AwsProfile("a-c1", "")]
    ELSE [found |-> TRUE,
          profile |-> profiles[CHOOSE i \in hits : \A j \in hits : i <= j]]

\* fmt.Sprintf("login-%s", source), as an identity key (line 44).
LoginGUID(source) == GuidOf("login-" \o source)

\* strings.Replace(iProfile.Command, " || sleep 60'", "'", -1) (line 50).
StripSleep(text) ==
    IF \E n \in CmdSources : text = AzureLogin(n) \o " || sleep 60'"
    THEN LET n == CHOOSE m \in CmdSources :
                      text = AzureLogin(m) \o " || sleep 60'"
         IN AzureLogin(n) \o "'"
    ELSE text

\* The --cmd flag (its default, line 91) and generateTemplate on a command
\* without {{ .Region }} (lines 54-55, 62-88).
Command == "aws s3 ls"
GenerateTemplate(command, profile) ==
    "AWS_PROFILE=" \o profile \o " " \o command

\* An element of ret: the string, with the source and the child it was
\* appended for (profile is "" for a login command).
Cmd(text, source, profile) ==
    [text |-> text, source |-> source, profile |-> profile]

\* A body that skips a child whose login profile is missing.
IterationSkipsOrphan(r, login, source, profile, profiles) ==
    LET f == FindGUID(profiles, LoginGUID(source))
        child == Cmd(GenerateTemplate(Command, profile), source, profile)
    IN IF login
       THEN [ret |-> Append(r, child), login |-> TRUE, panic |-> ""]
       ELSE IF ~f.found
       THEN [ret |-> r, login |-> FALSE, panic |-> ""]
       ELSE [ret |-> r \o <<Cmd(StripSleep(f.profile.Text), source, ""),
                             child>>,
             login |-> TRUE, panic |-> ""]

\* A body that never sets login.
IterationForgetsLogin(r, login, source, profile, profiles) ==
    LET f == FindGUID(profiles, LoginGUID(source))
        child == Cmd(GenerateTemplate(Command, profile), source, profile)
    IN IF ~f.found
       THEN [ret |-> r, login |-> FALSE, panic |-> "login-" \o source]
       ELSE [ret |-> r \o <<Cmd(StripSleep(f.profile.Text), source, ""),
                             child>>,
             login |-> FALSE, panic |-> ""]

\* The body of the inner loop (lines 43-56) on (ret, login): the new ret and
\* login, or the value it panics with.
Iteration(r, login, source, profile, profiles) ==
    LET f == FindGUID(profiles, LoginGUID(source))
        child == Cmd(GenerateTemplate(Command, profile), source, profile)
    IN IF login
       THEN [ret |-> Append(r, child), login |-> TRUE, panic |-> ""]
       ELSE IF ~f.found
       THEN [ret |-> r, login |-> FALSE, panic |-> "login-" \o source]
       ELSE [ret |-> r \o <<Cmd(StripSleep(f.profile.Text), source, ""),
                             child>>,
             login |-> TRUE, panic |-> ""]

\* cmdCmd.Run calls generateCommands, which evaluates prof.ProfileTree()
\* (lines 29-40).
CmdStart ==
    /\ Running
    /\ cmdPc = "start"
    /\ cmdTodo' = DOMAIN ProfileTree(cmdProf)
    /\ cmdPc' = "range"
    /\ UNCHANGED <<runVars, fanVars, awsVars, cmdProf, cmdSource, cmdChildren,
                   cmdLogin, cmdRet, halt>>

\* The outer loop takes the next source, in the order the map yields them
\* (lines 40-41).
RangeSource ==
    /\ Running
    /\ cmdPc = "range"
    /\ cmdChildren = <<>>
    /\ \E source \in cmdTodo :
          /\ cmdSource' = source
          /\ cmdChildren' = ProfileTree(cmdProf)[source]
          /\ cmdTodo' = cmdTodo \ {source}
    /\ cmdLogin' = FALSE
    /\ UNCHANGED <<runVars, fanVars, awsVars, cmdPc, cmdProf, cmdRet, halt>>

\* One iteration of the inner loop (lines 42-57).
RangeChild ==
    /\ Running
    /\ cmdPc = "range"
    /\ cmdChildren /= <<>>
    /\ LET it == Iteration(cmdRet, cmdLogin, cmdSource, Head(cmdChildren),
                           cmdProf)
       IN IF it.panic /= ""
          THEN /\ halt' = [kind |-> "panic", by |-> {}, at |-> it.panic]
               /\ UNCHANGED <<cmdRet, cmdLogin, cmdChildren>>
          ELSE /\ cmdRet' = it.ret
               /\ cmdLogin' = it.login
               /\ cmdChildren' = Tail(cmdChildren)
               /\ UNCHANGED halt
    /\ UNCHANGED <<runVars, fanVars, awsVars, cmdPc, cmdProf, cmdTodo,
                   cmdSource>>

\* generateCommands returns ret and cmdCmd.Run prints it (lines 59, 33).
ReturnCommands ==
    /\ Running
    /\ cmdPc = "range"
    /\ cmdChildren = <<>>
    /\ cmdTodo = {}
    /\ stdout' = Append(stdout, [kind |-> "commands", items |-> cmdRet])
    /\ cmdPc' = "returned"
    /\ UNCHANGED <<pc, write, diff, dryRun, ignoreInstances, data, prof,
                   candidates, warnings, outputFile, cacheFile, current, did,
                   touched, fanVars, awsVars, cmdProf, cmdTodo, cmdSource,
                   cmdChildren, cmdLogin, cmdRet, halt>>

(* ----------------------------- aws.Profiles ---------------------------- *)

\* strings.TrimPrefix(name, "profile ") (line 32).
TrimProfile(name) ==
    IF \E n \in SectionNames : name = "profile " \o n
    THEN CHOOSE n \in SectionNames : name = "profile " \o n
    ELSE name

\* fmt.Sprintf("%s-%s", prefix, ...) (line 32).
ProfileName(prefix, name) == prefix \o "-" \o TrimProfile(name)

\* An add that gives every section a login profile.
AddLoginAlways(profiles, name, section) ==
    profiles \o <<AwsProfile(name, section.source),
                  LoginProfile(name, section.azure)>>

\* add (lines 39-56) with iterm.Profiles.Add as an append: the profile of
\* the section, and the login profile when the section has no
\* source_profile key.
Add(profiles, name, section) ==
    IF section.hasSource
    THEN Append(profiles, AwsProfile(name, section.source))
    ELSE profiles \o <<AwsProfile(name, section.source),
                       LoginProfile(name, section.azure)>>

\* ini.ParseFile (lines 17-25): on an error nil is returned.
ParseFile ==
    /\ Running
    /\ awsPc = "parse"
    /\ \/ /\ awsPc' = "failed"
          /\ UNCHANGED awsTodo
       \/ /\ awsTodo' = awsConfig
          /\ awsPc' = "range"
    /\ UNCHANGED <<runVars, fanVars, cmdVars, awsPrefix, awsConfig, awsProf,
                   halt>>

\* One iteration of the loop of lines 28-34, in the order the map yields the
\* sections, with the call of add: user.Current can fail, and for an azure
\* section without source_profile exec.LookPath can, after the profile of
\* the section has been added; both failures are fatal.
RangeSection ==
    /\ Running
    /\ awsPc = "range"
    /\ \E section \in awsTodo :
          /\ awsTodo' = awsTodo \ {section}
          /\ IF section.name = ""
             THEN UNCHANGED <<awsProf, halt>>
             ELSE LET name == ProfileName(awsPrefix, section.name) IN
                  \/ /\ awsProf' = Add(awsProf, name, section)
                     /\ UNCHANGED halt
                  \/ /\ Fatal("Cannot find current user")
                     /\ UNCHANGED awsProf
                  \/ /\ ~section.hasSource
                     /\ section.azure
                     /\ awsProf' = Append(awsProf,
                                          AwsProfile(name, section.source))
                     /\ Fatal("Cannot find executable")
    /\ UNCHANGED <<runVars, fanVars, cmdVars, awsPc, awsPrefix, awsConfig>>

\* `return prof.Profiles` (line 36).
ReturnProfiles ==
    /\ Running
    /\ awsPc = "range"
    /\ awsTodo = {}
    /\ awsPc' = "returned"
    /\ UNCHANGED <<runVars, fanVars, cmdVars, awsPrefix, awsConfig, awsTodo,
                   awsProf, halt>>

(* ---------------------------- specification ---------------------------- *)

\* aws.Profiles is not running.
AwsIdle ==
    /\ awsPc = "idle"
    /\ awsPrefix = ""
    /\ awsConfig = {}
    /\ awsTodo = {}
    /\ awsProf = <<>>

\* The process runs `germ generate`: cmdCmd.Run is not called.
CmdIdle ==
    /\ cmdPc = "idle"
    /\ cmdProf = <<>>
    /\ cmdTodo = {}
    /\ cmdSource = ""
    /\ cmdChildren = <<>>
    /\ cmdLogin = FALSE
    /\ cmdRet = <<>>

Init ==
    /\ pc = "flags"
    /\ write \in BOOLEAN
    /\ diff \in BOOLEAN
    /\ dryRun \in BOOLEAN
    /\ ignoreInstances \in BOOLEAN
    /\ prof = <<>>
    /\ candidates = <<>>
    /\ warnings = <<>>
    /\ outputFile = Prior
    /\ cacheFile = Prior
    /\ stdout = <<>>
    /\ current = <<>>
    /\ data = Prior
    /\ did = {}
    /\ touched = {}
    /\ ret = <<>>
    /\ instances = <<>>
    /\ lock = NoWorker
    /\ wg = 0
    /\ wpc = [w \in Scopes |-> "idle"]
    /\ wAlias = [w \in Scopes |-> ""]
    /\ wTodo = [w \in Scopes |-> <<>>]
    /\ wEc2 = [w \in Scopes |-> ""]
    /\ wRet = [w \in Scopes |-> <<>>]
    /\ accessing = [w \in Scopes |-> NoAccess]
    /\ listed = [w \in Scopes |-> {}]
    /\ failedStep = [w \in Scopes |-> ""]
    /\ retNil = FALSE
    /\ CmdIdle
    /\ AwsIdle
    /\ halt = NoHalt

Next ==
    \/ CheckFlags
    \/ Sources
    \/ SsmStart
    \/ \E w \in Scopes : Worker(w)
    \/ MapRaceFatal
    \/ SsmReturn
    \/ LoadCache
    \/ Vault
    \/ Augment
    \/ Merge
    \/ PersistOpen
    \/ PersistWrite
    \/ Diff
    \/ PrintCollection

Spec == Init /\ [][Next]_vars

\* The merge loop and the reconciliation on their own: the run is at line 99
\* with any sequence of candidates in prof.Profiles.
InitMerge ==
    /\ pc = "merge"
    /\ write \in BOOLEAN
    /\ diff \in BOOLEAN
    /\ dryRun \in BOOLEAN
    /\ ignoreInstances \in BOOLEAN
    /\ ~FlagsConflict
    /\ \E names \in SeqsUpTo(MergeNames, MaxCand) :
          prof = UpdateRules(ExtProfiles(names, 0))
    /\ candidates = <<>>
    /\ warnings = <<>>
    /\ outputFile = Prior
    /\ cacheFile = Prior
    /\ stdout = <<>>
    /\ current = <<>>
    /\ data = Prior
    /\ did = {}
    /\ touched = {"sources"}
    /\ ret = <<>>
    /\ instances = <<>>
    /\ lock = NoWorker
    /\ wg = 0
    /\ wpc = [w \in Scopes |-> "idle"]
    /\ wAlias = [w \in Scopes |-> ""]
    /\ wTodo = [w \in Scopes |-> <<>>]
    /\ wEc2 = [w \in Scopes |-> ""]
    /\ wRet = [w \in Scopes |-> <<>>]
    /\ accessing = [w \in Scopes |-> NoAccess]
    /\ listed = [w \in Scopes |-> {}]
    /\ failedStep = [w \in Scopes |-> ""]
    /\ retNil = FALSE
    /\ CmdIdle
    /\ AwsIdle
    /\ halt = NoHalt

NextMerge ==
    \/ Merge
    \/ PersistOpen
    \/ PersistWrite
    \/ Diff
    \/ PrintCollection

SpecMerge == InitMerge /\ [][NextMerge]_vars

\* The process runs `germ cmd`: generateCmd.Run is not called and
\* aws.Profiles has returned any collection of the profiles of the sections.
InitCmd ==
    /\ pc = "cmd"
    /\ write = FALSE
    /\ diff = FALSE
    /\ dryRun = FALSE
    /\ ignoreInstances = FALSE
    /\ prof = <<>>
    /\ candidates = <<>>
    /\ warnings = <<>>
    /\ outputFile = Prior
    /\ cacheFile = Prior
    /\ stdout = <<>>
    /\ current = <<>>
    /\ data = Prior
    /\ did = {}
    /\ touched = {}
    /\ ret = <<>>
    /\ instances = <<>>
    /\ lock = NoWorker
    /\ wg = 0
    /\ wpc = [w \in Scopes |-> "idle"]
    /\ wAlias = [w \in Scopes |-> ""]
    /\ wTodo = [w \in Scopes |-> <<>>]
    /\ wEc2 = [w \in Scopes |-> ""]
    /\ wRet = [w \in Scopes |-> <<>>]
    /\ accessing = [w \in Scopes |-> NoAccess]
    /\ listed = [w \in Scopes |-> {}]
    /\ failedStep = [w \in Scopes |-> ""]
    /\ retNil = FALSE
    /\ cmdPc = "start"
    /\ cmdProf \in SeqsUpTo(CmdPool, MaxCmdProf)
    /\ cmdTodo = {}
    /\ cmdSource = ""
    /\ cmdChildren = <<>>
    /\ cmdLogin = FALSE
    /\ cmdRet = <<>>
    /\ AwsIdle
    /\ halt = NoHalt

NextCmd ==
    \/ CmdStart
    \/ RangeSource
    \/ RangeChild
    \/ ReturnCommands

SpecCmd == InitCmd /\ [][NextCmd]_vars

\* A call of aws.Profiles with any prefix on any config file of at most
\* MaxSections sections.
InitAws ==
    /\ pc = "aws"
    /\ write = FALSE
    /\ diff = FALSE
    /\ dryRun = FALSE
    /\ ignoreInstances = FALSE
    /\ prof = <<>>
    /\ candidates = <<>>
    /\ warnings = <<>>
    /\ outputFile = Prior
    /\ cacheFile = Prior
    /\ stdout = <<>>
    /\ current = <<>>
    /\ data = Prior
    /\ did = {}
    /\ touched = {}
    /\ ret = <<>>
    /\ instances = <<>>
    /\ lock = NoWorker
    /\ wg = 0
    /\ wpc = [w \in Scopes |-> "idle"]
    /\ wAlias = [w \in Scopes |-> ""]
    /\ wTodo = [w \in Scopes |-> <<>>]
    /\ wEc2 = [w \in Scopes |-> ""]
    /\ wRet = [w \in Scopes |-> <<>>]
    /\ accessing = [w \in Scopes |-> NoAccess]
    /\ listed = [w \in Scopes |-> {}]
    /\ failedStep = [w \in Scopes |-> ""]
    /\ retNil = FALSE
    /\ CmdIdle
    /\ awsPc = "parse"
    /\ awsPrefix \in Prefixes
    /\ awsConfig \in {c \in SUBSET SectionPool : Cardinality(c) <= MaxSections}
    /\ awsTodo = {}
    /\ awsProf = <<>>
    /\ halt = NoHalt

NextAws ==
    \/ ParseFile
    \/ RangeSection
    \/ ReturnProfiles

SpecAws == InitAws /\ [][NextAws]_vars

\* The Go scheduler runs every goroutine that can run: a goroutine that can
\* take a step takes one, and so does the goroutine of generateCmd.Run when
\* wg.Wait() can return. Every remote call returns, with an answer or an
\* error. The runtime's check for overlapping map accesses may or may not
\* fire.
Fairness ==
    /\ \A w \in Scopes : WF_vars(Worker(w))
    /\ WF_vars(SsmReturn)

SpecFair == Init /\ [][Next]_vars /\ Fairness

(* ------------------------------- claims -------------------------------- *)

\* ssm.Generate has returned to the run.
GenerateReturned == "cache" \in touched

\* The profiles of `profiles` built for instance `id`.
ProfilesOf(profiles, id) == {i \in DOMAIN profiles : profiles[i].Id = id}

\* C1: when ssm.Generate has returned, every instance id that two scopes
\* both listed has exactly one profile in the returned profiles and one
\* entry in the accumulator.
FanOutDedup ==
    GenerateReturned =>
        \A id \in InstanceIds :
            (\E v, w \in Scopes : v /= w /\ id \in listed[v] \cap listed[w])
            => /\ Cardinality(ProfilesOf(ret, id)) = 1
               /\ id \in DOMAIN instances

\* C2: a goroutine reads or writes the accumulator only while it holds the
\* mutex, and no write of the accumulator overlaps another access of it.
LockDiscipline ==
    /\ \A w \in Scopes : accessing[w] /= NoAccess => lock = w
    /\ \A v, w \in Scopes : v /= w => ~Conflict(accessing[v], accessing[w])

NamesOf(profiles) == [i \in DOMAIN profiles |-> profiles[i].Name]

\* The merge loop has run.
Merged == pc \in {"reconcile", "writing", "done"}

\* C3: after the merge loop no two profiles of the collection have the
\* same name.
MergeUnique ==
    Merged =>
        \A i, j \in DOMAIN prof : i /= j => prof[i].Name /= prof[j].Name

\* A collection with three or more candidates, one of them discarded, has
\* been merged.
MergeUniqueWitness ==
    /\ Merged
    /\ Len(candidates) >= 3
    /\ Len(prof) = 2
    /\ warnings /= <<>>

\* The candidates from position i on whose name does not occur before them,
\* and the names of the others.
RECURSIVE FirstOccurrences(_, _)
FirstOccurrences(c, i) ==
    IF i > Len(c) THEN <<>>
    ELSE (IF \E j \in 1..(i - 1) : c[j].Name = c[i].Name
          THEN <<>> ELSE <<c[i]>>) \o FirstOccurrences(c, i + 1)

RECURSIVE LaterOccurrences(_, _)
LaterOccurrences(c, i) ==
    IF i > Len(c) THEN <<>>
    ELSE (IF \E j \in 1..(i - 1) : c[j].Name = c[i].Name
          THEN <<c[i].Name>> ELSE <<>>) \o LaterOccurrences(c, i + 1)

\* C4: when the merge loop has run and before the reconciliation acts, the
\* collection is the candidate sequence without the later occurrences of
\* each name, in the order of the input; one warning was logged for each
\* discarded candidate, and the run has not aborted.
MergeFirstOccurrence ==
    (pc = "reconcile" /\ did = {}) =>
        /\ prof = FirstOccurrences(candidates, 1)
        /\ warnings = LaterOccurrences(candidates, 1)
        /\ Len(warnings) = Len(candidates) - Len(prof)
        /\ Running

\* The scenario of the first-occurrence rule: x-foo, x-foo, x-bar gives the
\* first x-foo and x-bar, with one warning.
MergeFirstOccurrenceWitness ==
    /\ pc = "reconcile"
    /\ NamesOf(candidates) = <<"x-foo", "x-foo", "x-bar">>
    /\ NamesOf(prof) = <<"x-foo", "x-bar">>
    /\ prof[1].Text = "#1"
    /\ warnings = <<"x-foo">>

RECURSIVE TotalEmitted(_)
TotalEmitted(S) ==
    IF S = {} THEN 0
    ELSE LET w == CHOOSE x \in S : TRUE IN
         Len(wRet[w]) + TotalEmitted(S \ {w})

\* C5: when ssm.Generate has returned, every goroutine it started has
\* finished, and the returned sequence is made of the profiles each
\* goroutine emitted, each goroutine's profiles in one piece and none lost.
FanOutCompletion ==
    GenerateReturned =>
        /\ \A w \in Scopes : wpc[w] \in {"idle", "done"}
        /\ Len(ret) = TotalEmitted(Scopes)
        /\ \A w \in Scopes :
              \E k \in 0..Len(ret) :
                  SubSeq(ret, k + 1, k + Len(wRet[w])) = wRet[w]

\* ssm.Generate has returned after two goroutines ran, with a profile.
FanOutCompletionWitness ==
    /\ GenerateReturned
    /\ \A w \in Scopes : wpc[w] = "done"
    /\ Len(ret) >= 1

\* The instance ids a goroutine has stored in the accumulator.
StoredBy(w) ==
    {wRet[w][i].Id : i \in DOMAIN wRet[w]}
    \ (IF wpc[w] \in {"insert", "stored"} THEN {Head(wTodo[w])} ELSE {})

\* C6: a scope whose step (1) or step (3) failed contributes no profile and
\* no accumulator entry, and its goroutine takes no part in anything that
\* ends the process, so that the other scopes contribute what they would
\* contribute without it.
ScopeAbortIsolation ==
    \A w \in Scopes :
        failedStep[w] \in {"identity", "list"} =>
            /\ wRet[w] = <<>>
            /\ StoredBy(w) = {}
            /\ ~(halt.kind /= "none" /\ w \in halt.by)

\* C7: a failure of step (2) does not crash the goroutine or the run.
AliasFailureDegrades ==
    \A w \in Scopes :
        ~(halt.kind = "panic" /\ halt.at = "alias" /\ w \in halt.by)

\* C8: a failure of step (4) for an instance, or an answer without a
\* reservation, does not crash the goroutine or the run: the loop body goes
\* on to emit the profile of that instance.
MetadataFailureDegrades ==
    \A w \in Scopes :
        ~(halt.kind = "panic" /\ halt.at = "meta" /\ w \in halt.by)

\* C9: with both --write and --diff the run never leaves the flag check: no
\* source is called, no goroutine is started, neither file is read or
\* written, nothing is printed, and once the check has run the process has
\* exited with a fatal error.
ConflictRejected ==
    (write /\ diff) =>
        /\ pc = "flags"
        /\ touched = {}
        /\ did = {}
        /\ \A w \in Scopes : wpc[w] = "idle"
        /\ cacheFile = Prior
        /\ outputFile = Prior
        /\ stdout = <<>>
        /\ halt.kind \in {"none", "fatal"}

\* The run was started with --write and --diff, without --dry-run, and has
\* been rejected.
ConflictRejectedWitness ==
    /\ write
    /\ diff
    /\ ~dryRun
    /\ halt.kind = "fatal"

\* C10: a run enters at most one of the three branches and a finished run
\* has entered exactly the one its flags select; without --write the output
\* file is never changed; a finished --write run has left in the output file
\* exactly the serialized collection and has printed nothing; a finished
\* print run has printed exactly the serialized collection.
ModeExclusive ==
    /\ Cardinality(did) <= 1
    /\ ~write => outputFile = Prior
    /\ pc = "done" =>
          /\ did = IF write THEN {"persist"}
                   ELSE IF diff THEN {"diff"} ELSE {"print"}
          /\ write => outputFile = Serialize(prof) /\ stdout = <<>>
          /\ (~write /\ ~diff) => stdout = <<Serialize(prof)>>

\* A --write run has finished with a collection of three or more profiles.
ModeExclusiveWitness ==
    /\ pc = "done"
    /\ write
    /\ Len(prof) >= 3
    /\ outputFile.kind = "document"

\* Two collections hold the same profiles, whatever their order.
SameProfiles(a, b) ==
    /\ Len(a) = Len(b)
    /\ Range(Fields(a)) = Range(Fields(b))

\* C11: when the diff branch has finished, nothing was printed if the
\* collection read from the output file holds the same profiles as the new
\* one, and a diff was printed if the new one holds the profiles of the old
\* one and one more.
DiffCorrect ==
    (pc = "done" /\ did = {"diff"}) =>
        /\ SameProfiles(current, prof) => stdout = <<>>
        /\ (/\ Len(prof) = Len(current) + 1
            /\ Range(Fields(current)) \subseteq Range(Fields(prof)))
           => (Len(stdout) = 1 /\ stdout[1].kind = "diff")

\* The diff branch has compared a collection of three or more profiles with
\* the same profiles in another order, and printed nothing.
DiffCorrectWitness ==
    /\ pc = "done"
    /\ did = {"diff"}
    /\ Len(prof) >= 3
    /\ SameProfiles(current, prof)
    /\ stdout = <<>>

\* C12: in a --write run the output file holds, in every state, either what
\* it held before the run or the serialized collection.
WriteAllOrNothing ==
    write =>
        \/ outputFile = Prior
        \/ (Merged /\ outputFile = Serialize(prof))

\* The commands of ret appended for the children of a source, in order.
RECURSIVE ChildCommands(_, _)
ChildCommands(r, source) ==
    IF r = <<>> THEN <<>>
    ELSE (IF Head(r).source = source /\ Head(r).profile /= ""
          THEN <<Head(r).profile>> ELSE <<>>)
         \o ChildCommands(Tail(r), source)

\* The positions of ret that hold the login command of a source.
LoginCommands(r, source) ==
    {i \in DOMAIN r : r[i].source = source /\ r[i].profile = ""}

\* C13: when generateCommands has returned, every source of the hierarchy
\* has its login profile in the collection and every child of the source
\* has its command in the result, in the order of the hierarchy; a run that
\* panicked did so with the identity key of a login profile the collection
\* does not hold.
HierarchyComplete ==
    /\ cmdPc = "returned" =>
          \A source \in DOMAIN ProfileTree(cmdProf) :
              /\ \E i \in DOMAIN cmdProf :
                    cmdProf[i].Name = "login-" \o source
              /\ ChildCommands(cmdRet, source) = ProfileTree(cmdProf)[source]
    /\ halt.kind = "panic" =>
          /\ halt.at = "login-" \o cmdSource
          /\ \A i \in DOMAIN cmdProf : cmdProf[i].Name /= halt.at
          /\ cmdPc /= "returned"

\* generateCommands has returned the commands of two sources, one of them
\* with two children.
HierarchyCompleteWitness ==
    /\ cmdPc = "returned"
    /\ DOMAIN ProfileTree(cmdProf) = {"a", "b"}
    /\ Len(cmdRet) = 4

\* C14: the merge loop applied to the collection it produced gives the same
\* collection and no warning.
DedupIdempotent ==
    pc = "reconcile" =>
        /\ Dedup(prof).uniq = prof
        /\ Dedup(prof).warned = <<>>

\* The loop has merged x-foo, x-bar, x-foo.
DedupIdempotentWitness ==
    /\ pc = "reconcile"
    /\ NamesOf(candidates) = <<"x-foo", "x-bar", "x-foo">>
    /\ NamesOf(prof) = <<"x-foo", "x-bar">>

\* The run has finished without a fatal error or a crash.
Succeeded == pc = "done" /\ Running

\* C15, as stated: every run that has finished successfully has left in the
\* cache file the JSON array of the profiles the discovery returned.
CacheWrittenOnSuccess ==
    Succeeded =>
        /\ cacheFile.kind = "array"
        /\ cacheFile.items = Fields(ret)

\* C15, amended: every run with live discovery that has finished
\* successfully has left in the cache file the JSON encoding of what
\* ssm.Generate returned, an array of its profiles or null for a nil slice;
\* a run that reuses the cache leaves the cache file as it found it.
CacheWrittenAfterDiscovery ==
    /\ (Succeeded /\ ~ignoreInstances) =>
          /\ cacheFile.kind = (IF retNil THEN "null" ELSE "array")
          /\ cacheFile.items = Fields(ret)
    /\ ignoreInstances => cacheFile = Prior

\* A run with live discovery has finished and discovery returned a profile.
CacheWrittenAfterDiscoveryWitness ==
    /\ Succeeded
    /\ ~ignoreInstances
    /\ Len(ret) >= 1
    /\ cacheFile.kind = "array"

BadStateMessages ==
    {"cannot read from file", "cannot unmarshal ssm profiles",
     "cannot read file", "cannot unmarshal output file"}

\* C16: a cache file or an output file that cannot be read or decoded ends
\* the run where it was read: the process has exited with a fatal error,
\* nothing was printed, the output file is as it was, and the run is still
\* at the cache load or at the diff branch.
BadStateFatal ==
    halt.at \in BadStateMessages =>
        /\ halt.kind = "fatal"
        /\ stdout = <<>>
        /\ outputFile = Prior
        /\ IF halt.at \in {"cannot read from file",
                           "cannot unmarshal ssm profiles"}
           THEN ignoreInstances /\ pc = "ssm"
           ELSE DiffSelected /\ pc = "reconcile" /\ current = <<>>

\* A diff run over three or more profiles found an output file it could
\* not decode.
BadStateFatalWitness ==
    /\ halt.kind = "fatal"
    /\ halt.at = "cannot unmarshal output file"
    /\ Len(prof) >= 3

\* The positions of a goroutine inside a remote call of the chain, or inside
\* the loading of the SDK configuration before it.
RemoteCallSteps == {"load", "sts", "iam", "list", "ec2"}

\* C17: a goroutine that is in a remote call does not hold the mutex; the
\* holder of the mutex is in the section of lines 58-66.
NoLockAcrossRemoteCalls ==
    \A w \in Scopes :
        /\ wpc[w] \in RemoteCallSteps => lock /= w
        /\ lock = w => wpc[w] \in {"copy", "copied"}

\* A goroutine is in DescribeInstances while the other holds the mutex.
NoLockAcrossRemoteCallsWitness ==
    \E v, w \in Scopes :
        /\ v /= w
        /\ wpc[v] = "ec2"
        /\ wTodo[v] /= <<>>
        /\ lock = w

\* C18: the augmentation passes have been applied to no profile as long as
\* the merge loop has not run.
PipelineOrder ==
    (\E i \in DOMAIN prof : prof[i].Rules) => Merged

\* C19: in ret, no source has more than one login command, every command of
\* a child comes after the login command of its source, and when
\* generateCommands has returned every source of the hierarchy has exactly
\* one login command.
ParentBeforeChildren ==
    /\ \A source \in CmdSources :
          /\ Cardinality(LoginCommands(cmdRet, source)) <= 1
          /\ \A j \in DOMAIN cmdRet :
                (cmdRet[j].source = source /\ cmdRet[j].profile /= "")
                => \E i \in LoginCommands(cmdRet, source) : i < j
    /\ cmdPc = "returned" =>
          \A source \in DOMAIN ProfileTree(cmdProf) :
              Cardinality(LoginCommands(cmdRet, source)) = 1

\* generateCommands has returned the login command of a and the commands of
\* its two children.
ParentBeforeChildrenWitness ==
    /\ cmdPc = "returned"
    /\ Len(ChildCommands(cmdRet, "a")) = 2
    /\ LoginCommands(cmdRet, "a") /= {}

FanOutTerminates == (pc = "wait") ~> GenerateReturned

\* The names aws.Profiles is to emit for a section: none for the section
\* without a name, the prefixed name, and its login companion when the
\* section has no source_profile key.
Block(prefix, section) ==
    LET name == prefix \o "-" \o TrimProfile(section.name) IN
    IF section.name = "" THEN <<>>
    ELSE IF section.hasSource THEN <<name>>
    ELSE <<name, "login-" \o name>>

RECURSIVE Blocks(_, _)
Blocks(prefix, sections) ==
    IF sections = <<>> THEN <<>>
    ELSE Block(prefix, Head(sections)) \o Blocks(prefix, Tail(sections))

\* C22: when aws.Profiles has returned, the names of the profiles it
\* returns are, for the sections in some order, the prefixed name of each
\* named section, followed at once by its login companion exactly when the
\* section has no source_profile key; the section without a name
\* contributes nothing.
LoginCompanion ==
    awsPc = "returned" =>
        \E order \in {l \in ListsOver(awsConfig) :
                         Len(l) = Cardinality(awsConfig)} :
            NamesOf(awsProf) = Blocks(awsPrefix, order)

\* aws.Profiles has returned the profiles of a config that has the section
\* without a name, a section with and a section without source_profile.
LoginCompanionWitness ==
    /\ awsPc = "returned"
    /\ \E x, y, z \in awsConfig :
          /\ x.name = ""
          /\ y.name /= "" /\ y.hasSource
          /\ z.name /= "" /\ ~z.hasSource
    /\ Len(awsProf) = 3

====
